---- MODULE Spec2Model ----
(***************************************************************************)
(* Model of screenshot.cc: main() and RegionSelector::SelectRegion().      *)
(* Every X11 / cairo call whose outcome the program cannot control is a    *)
(* nondeterministic choice.  The program is single-threaded; pc is the     *)
(* position of main (and of SelectRegion, which main calls inline).        *)
(***************************************************************************)
EXTENDS Integers, Sequences, FiniteSets, TLC

(* ------------------------------ bounds --------------------------------- *)
\* Pointer coordinates range over the two values of the documented drag
\* example plus 1..ExtraCoords.
ExtraCoords == 0
\* Longest value of the -window flag that is enumerated.
MaxFlagLen == 1
\* Largest argc (after flag parsing) that is enumerated.
MaxArgc == 3

Coord == {10, 50} \cup (1 .. ExtraCoords)
ArgcValues == 1 .. MaxArgc

(* --------------------------- program constants ------------------------- *)
kBorder == 2
kInteriorBorder == 1
kMaxKeyboardGrabAttempts == 10

NULL == "NULL"

\* The four border windows of a RegionSelector.
Windows == {"left_win_", "right_win_", "top_win_", "bottom_win_"}

\* Geometry given to a border window by CreateWindow and by
\* MoveWindowsOffscreen.
Offscreen == [x |-> -1, y |-> -1, width |-> 1, height |-> 1]

\* Geometry XGetGeometry reports for the root window and the geometries it
\* may report for a window named by -window.
RootGeom == [x |-> 0, y |-> 0, width |-> 1920, height |-> 1080]
WindowGeoms == {[x |-> 100, y |-> 50, width |-> 400, height |-> 300],
                [x |-> 7, y |-> 0, width |-> 1, height |-> 1]}

\* Depths an XImage may report.
Depths == {8, 16, 24, 32}

\* Characters of a -window value: "a" is a hexadecimal digit, "n" is not.
FlagChars == {"a", "n"}
RECURSIVE SeqsUpTo(_)
SeqsUpTo(n) ==
  IF n = 0 THEN {<< >>}
  ELSE LET shorter == SeqsUpTo(n - 1)
       IN  shorter \cup {Append(s, c) : s \in shorter, c \in FlagChars}
FlagValues == SeqsUpTo(MaxFlagLen)

(* ------------------------------ helpers -------------------------------- *)
min(a, b) == IF a < b THEN a ELSE b
max(a, b) == IF a > b THEN a ELSE b
Abs(a) == IF a < 0 THEN -a ELSE a

IsHexDigit(c) == c = "a"
HexDigitValue(c) == IF c = "a" THEN 10 ELSE 0

\* istringstream >> hex >> win: consumes the longest prefix of hexadecimal
\* digits; the extraction fails when that prefix is empty.
RECURSIVE HexPrefix(_, _)
HexPrefix(s, acc) ==
  IF s = << >> \/ ~IsHexDigit(Head(s)) THEN acc
  ELSE HexPrefix(Tail(s), [digits |-> acc.digits + 1,
                           value |-> acc.value * 16 + HexDigitValue(Head(s))])
ParseHex_NeverFails(s) ==
  LET r == HexPrefix(s, [digits |-> 0, value |-> 0])
  IN  [fail |-> FALSE, value |-> r.value]
ParseHex(s) ==
  LET r == HexPrefix(s, [digits |-> 0, value |-> 0])
  IN  [fail |-> r.digits = 0, value |-> r.value]

(* ------------------------------ state ---------------------------------- *)
VARIABLES
  pc,               \* position of main / SelectRegion
  argc,             \* argument count left after flag parsing
  FLAGS_region,     \* -region
  FLAGS_window,     \* -window
  display,          \* TRUE once XOpenDisplay has returned a connection
  win,              \* the window to capture
  geometry,         \* the geometry XGetGeometry found for win
  x_ret, y_ret,     \* position reported by XGetGeometry
  shot_x, shot_y, shot_width, shot_height,
  exit_status,      \* "running", "0", "1" or "abort" (a failed CHECK)
  \* RegionSelector and the locals of SelectRegion
  border_created,   \* the four border windows exist
  border_geom,      \* geometry of each border window
  mapped,           \* the border windows that are mapped
  pointer_grab_result,  \* outcome of XGrabPointer in GrabPointer
  keyboard_grab_result, \* outcome of the last XGrabKeyboard in GrabKeyboard
  pointerGrabbed, keyboardGrabbed,
  num_failed_grabs,
  done, dragging, aborted,
  start_x, start_y, end_x, end_y,
  event,            \* the event last returned by XNextEvent
  paint_request,    \* the XFillRectangle calls made for that event
  selectResult,     \* "none", then what SelectRegion returned
  \* capture, feedback and encoding
  image,            \* outcome of XGetImage
  feedback,         \* the visual feedback window
  encoder,          \* the cairo calls made
  \* history of the calls and inputs the properties speak about
  calls,            \* number of XGrabPointer / XUngrabPointer / ... calls
  press_pos,        \* position of the most recent ButtonPress
  release_pos       \* position of the ButtonRelease that ended the drag

vars == << pc, argc, FLAGS_region, FLAGS_window, display, win, geometry, x_ret,
           y_ret,
           shot_x, shot_y, shot_width, shot_height, exit_status,
           border_created, border_geom, mapped, pointer_grab_result,
           keyboard_grab_result,
           pointerGrabbed, keyboardGrabbed, num_failed_grabs,
           done, dragging, aborted, start_x, start_y, end_x, end_y, event,
           paint_request,
           selectResult, image, feedback, encoder, calls, press_pos,
           release_pos >>

mainVars == << argc, FLAGS_region, FLAGS_window, display, win, geometry, x_ret,
           y_ret,
               shot_x, shot_y, shot_width, shot_height >>
selectorVars == << border_created, border_geom, mapped, pointer_grab_result,
                   keyboard_grab_result,
                   pointerGrabbed, keyboardGrabbed, num_failed_grabs,
                   done, dragging, aborted, start_x, start_y, end_x, end_y,
                   event, paint_request,
                   selectResult, calls, press_pos, release_pos >>
captureVars == << image, feedback, encoder >>

ZeroRect == [x |-> 0, y |-> 0, width |-> 0, height |-> 0]
NoPoint == [set |-> FALSE, x |-> 0, y |-> 0]
Point(px, py) == [set |-> TRUE, x |-> px, y |-> py]
NoEvent == [type |-> "None", detail |-> "None"]
Event(t, d) == [type |-> t, detail |-> d]
NoImage == [status |-> "none", depth |-> 0, rect |-> ZeroRect]
NoFeedback == [state |-> "none", rect |-> ZeroRect]
NoEncoder == [surface |-> "none", format |-> "none", written |-> "none"]
NoCalls == [XGrabPointer |-> 0, XUngrabPointer |-> 0, XUngrabKeyboard |-> 0]

Init ==
  /\ pc = "main"
  /\ argc \in ArgcValues
  /\ FLAGS_region \in BOOLEAN
  /\ FLAGS_window \in FlagValues
  /\ display = FALSE
  /\ win = "None"
  /\ geometry = ZeroRect
  /\ x_ret = 0 /\ y_ret = 0
  /\ shot_x = 0 /\ shot_y = 0 /\ shot_width = 0 /\ shot_height = 0
  /\ exit_status = "running"
  /\ border_created = FALSE
  /\ border_geom = [w \in Windows |-> Offscreen]
  /\ mapped = {}
  /\ pointer_grab_result = "none"
  /\ keyboard_grab_result = "none"
  /\ pointerGrabbed = FALSE /\ keyboardGrabbed = FALSE
  /\ num_failed_grabs = 0
  /\ done = FALSE /\ dragging = FALSE /\ aborted = FALSE
  /\ start_x = 0 /\ start_y = 0 /\ end_x = 0 /\ end_y = 0
  /\ event = NoEvent
  /\ paint_request = << >>
  /\ selectResult = "none"
  /\ image = NoImage
  /\ feedback = NoFeedback
  /\ encoder = NoEncoder
  /\ calls = NoCalls
  /\ press_pos = NoPoint
  /\ release_pos = NoPoint

(* ------------------------------- main ---------------------------------- *)
\* A failed CHECK aborts the process; return 1 ends it with status 1.
Abort == pc' = "exit" /\ exit_status' = "abort"
Return1 == pc' = "exit" /\ exit_status' = "1"

\* main: the argument count check.
CheckArgs ==
  /\ pc = "main"
  /\ IF argc # 2 THEN Return1
     ELSE pc' = "open_display" /\ UNCHANGED exit_status
  /\ UNCHANGED << mainVars, selectorVars, captureVars >>

\* main: XOpenDisplay and CHECK(display).
OpenDisplay ==
  /\ pc = "open_display"
  /\ \E ok \in BOOLEAN :
       /\ display' = ok
       /\ IF ok THEN pc' = "resolve_window" /\ UNCHANGED exit_status
          ELSE Abort
  /\ UNCHANGED << argc, FLAGS_region, FLAGS_window, win, geometry, x_ret, y_ret,
                  shot_x, shot_y, shot_width, shot_height,
                  selectorVars, captureVars >>

\* main: if (FLAGS_window.empty() || FLAGS_region)
UsesRootWindow_IgnoresRegion(window, region) == window = << >>
UsesRootWindow(window, region) == window = << >> \/ region

\* main: the window to capture.  The -window value is parsed only when it
\* is non-empty and -region is not set.
ResolveWindow ==
  /\ pc = "resolve_window"
  /\ IF UsesRootWindow(FLAGS_window, FLAGS_region)
     THEN win' = "root" /\ pc' = "get_geometry" /\ UNCHANGED exit_status
     ELSE LET r == ParseHex(FLAGS_window)
          IN  IF r.fail THEN Abort /\ UNCHANGED win
              ELSE /\ win' = "window"
                   /\ pc' = "get_geometry"
                   /\ UNCHANGED exit_status
  /\ UNCHANGED << argc, FLAGS_region, FLAGS_window, display, geometry,
                  x_ret, y_ret,
                  shot_x, shot_y, shot_width, shot_height,
                  selectorVars, captureVars >>

\* What main holds after XGetGeometry has reported geometry g: the position
\* goes to x_ret / y_ret, the size to shot_width / shot_height, and shot_x /
\* shot_y keep their initial 0.
GeometryOutputs_ShotAtPosition(g) ==
  [x_ret |-> g.x, y_ret |-> g.y, shot_x |-> g.x, shot_y |-> g.y,
   shot_width |-> g.width, shot_height |-> g.height]
GeometryOutputs(g) ==
  [x_ret |-> g.x, y_ret |-> g.y, shot_x |-> 0, shot_y |-> 0,
   shot_width |-> g.width, shot_height |-> g.height]

\* main: XGetGeometry on the chosen window and its CHECK.
GetGeometry ==
  /\ pc = "get_geometry"
  /\ \/ /\ Abort
        /\ UNCHANGED << geometry, x_ret, y_ret, shot_x, shot_y,
                        shot_width, shot_height >>
     \/ \E g \in (IF win = "root" THEN {RootGeom} ELSE WindowGeoms) :
          LET o == GeometryOutputs(g)
          IN  /\ geometry' = g
              /\ x_ret' = o.x_ret /\ y_ret' = o.y_ret
              /\ shot_x' = o.shot_x /\ shot_y' = o.shot_y
              /\ shot_width' = o.shot_width
              /\ shot_height' = o.shot_height
              /\ pc' = IF FLAGS_region THEN "construct" ELSE "get_image"
              /\ UNCHANGED exit_status
  /\ UNCHANGED << argc, FLAGS_region, FLAGS_window, display, win,
                  selectorVars, captureVars >>

(* --------------------------- RegionSelector ---------------------------- *)
\* ~RegionSelector, run when main leaves the block of line 381: the border
\* windows are destroyed.  The locals of SelectRegion's event loop end with
\* the call and are cleared with it.
SelectorGone ==
  /\ border_created' = FALSE
  /\ border_geom' = [w \in Windows |-> Offscreen]
  /\ done' = FALSE /\ dragging' = FALSE /\ aborted' = FALSE
  /\ start_x' = 0 /\ start_y' = 0 /\ end_x' = 0 /\ end_y' = 0
  /\ event' = NoEvent
  /\ paint_request' = << >>

\* main: RegionSelector selector(display); CreateWindow four times.
Construct ==
  /\ pc = "construct"
  /\ border_created' = TRUE
  /\ border_geom' = [w \in Windows |-> Offscreen]
  /\ pc' = "grab_pointer"
  /\ UNCHANGED << mainVars, captureVars, exit_status, mapped,
                  pointer_grab_result,
                  keyboard_grab_result, pointerGrabbed, keyboardGrabbed,
                  num_failed_grabs, done, dragging, aborted,
                  start_x, start_y, end_x, end_y, event,
                  paint_request, selectResult,
                  calls, press_pos, release_pos >>

\* SelectRegion: if (!GrabPointer()) return false;  main then returns 1.
GrabPointerStep_FallThrough ==
  /\ pc = "grab_pointer"
  /\ \E r \in {"GrabSuccess", "AlreadyGrabbed"} :
       /\ pointer_grab_result' = r
       /\ calls' = [calls EXCEPT !.XGrabPointer = @ + 1]
       /\ pointerGrabbed' = (r = "GrabSuccess")
       /\ pc' = "grab_keyboard"
       /\ UNCHANGED << selectResult, exit_status, border_created,
                       border_geom, done, dragging, aborted, start_x,
                       start_y, end_x, end_y, event, paint_request >>
  /\ UNCHANGED << mainVars, captureVars, mapped, keyboardGrabbed,
                  keyboard_grab_result, num_failed_grabs, press_pos,
                  release_pos >>
GrabPointerStep ==
  /\ pc = "grab_pointer"
  /\ \E r \in {"GrabSuccess", "AlreadyGrabbed"} :
       /\ pointer_grab_result' = r
       /\ calls' = [calls EXCEPT !.XGrabPointer = @ + 1]
       /\ pointerGrabbed' = (r = "GrabSuccess")
       /\ IF r = "GrabSuccess"
          THEN /\ pc' = "grab_keyboard"
               /\ UNCHANGED << selectResult, exit_status, border_created,
                               border_geom, done, dragging, aborted,
                               start_x, start_y, end_x, end_y, event,
                               paint_request >>
          ELSE /\ selectResult' = "false"
               /\ SelectorGone
               /\ Return1
  /\ UNCHANGED << mainVars, captureVars, mapped, keyboardGrabbed,
                  keyboard_grab_result, num_failed_grabs, press_pos,
                  release_pos >>

\* The test that ends the keyboard grab retries.
RetriesExhausted_OffByOne(n) == n > kMaxKeyboardGrabAttempts
RetriesExhausted(n) == n >= kMaxKeyboardGrabAttempts

\* What the exhausted retry loop does to the pointer grab before returning.
ReleaseOnExhaustion_Leak(grabbed) == grabbed
ReleaseOnExhaustion(grabbed) == FALSE

\* SelectRegion: one pass of while (!GrabKeyboard()) { ... }.
GrabKeyboardStep ==
  /\ pc = "grab_keyboard"
  /\ \E r \in {"GrabSuccess", "AlreadyGrabbed"} :
       /\ keyboard_grab_result' = r
       /\ keyboardGrabbed' = (r = "GrabSuccess")
       /\ IF r = "GrabSuccess"
          THEN /\ pc' = "map_windows"
               /\ UNCHANGED << calls, num_failed_grabs, pointerGrabbed,
                               selectResult, exit_status, border_created,
                               border_geom, done, dragging, aborted,
                               start_x, start_y, end_x, end_y, event,
                               paint_request >>
          ELSE /\ num_failed_grabs' = num_failed_grabs + 1
               /\ IF RetriesExhausted(num_failed_grabs + 1)
                  THEN /\ pointerGrabbed' = ReleaseOnExhaustion(pointerGrabbed)
                       /\ calls' = [calls EXCEPT !.XUngrabPointer = @ + 1]
                       /\ selectResult' = "false"
                       /\ SelectorGone
                       /\ Return1
                  ELSE /\ pc' = "grab_keyboard"
                       /\ UNCHANGED << calls, pointerGrabbed, selectResult,
                                       exit_status, border_created,
                                       border_geom, done, dragging, aborted,
                                       start_x, start_y, end_x, end_y,
                                       event, paint_request >>
  /\ UNCHANGED << mainVars, captureVars, mapped, pointer_grab_result,
                  press_pos, release_pos >>

\* SelectRegion: MoveWindowsOffscreen, the four XMapWindow calls and the
\* locals of the event loop.  num_failed_grabs is never read again and is
\* cleared here.
MapWindows ==
  /\ pc = "map_windows"
  /\ border_geom' = [w \in Windows |-> Offscreen]
  /\ mapped' = Windows
  /\ num_failed_grabs' = 0
  /\ done' = FALSE /\ dragging' = FALSE /\ aborted' = FALSE
  /\ start_x' = 0 /\ start_y' = 0 /\ end_x' = 0 /\ end_y' = 0
  /\ pc' = "loop"
  /\ UNCHANGED << mainVars, captureVars, exit_status, border_created,
                  pointer_grab_result,
                  keyboard_grab_result, pointerGrabbed, keyboardGrabbed,
                  event, paint_request,
                  selectResult, calls, press_pos, release_pos >>

\* ConfigureWindows: the geometry each border window gets for a drag from
\* (sx, sy) to (dx, dy).
ConfigureWindows_NoCorners(sx, sy, dx, dy) ==
  LET left == min(dx, sx)
      right == max(dx, sx)
      top == min(dy, sy)
      bottom == max(dy, sy)
  IN  [w \in Windows |->
         CASE w = "left_win_" ->
                [x |-> left - kBorder, y |-> top,
                 width |-> kBorder, height |-> max(bottom - top, 1)]
           [] w = "right_win_" ->
                [x |-> right, y |-> top,
                 width |-> kBorder, height |-> max(bottom - top, 1)]
           [] w = "top_win_" ->
                [x |-> left, y |-> top - kBorder,
                 width |-> max(right - left, 1), height |-> kBorder]
           [] w = "bottom_win_" ->
                [x |-> left - kBorder, y |-> bottom,
                 width |-> right - left + 2 * kBorder, height |-> kBorder]]
ConfigureWindows(sx, sy, dx, dy) ==
  LET left == min(dx, sx)
      right == max(dx, sx)
      top == min(dy, sy)
      bottom == max(dy, sy)
  IN  [w \in Windows |->
         CASE w = "left_win_" ->
                [x |-> left - kBorder, y |-> top,
                 width |-> kBorder, height |-> max(bottom - top, 1)]
           [] w = "right_win_" ->
                [x |-> right, y |-> top,
                 width |-> kBorder, height |-> max(bottom - top, 1)]
           [] w = "top_win_" ->
                [x |-> left - kBorder, y |-> top - kBorder,
                 width |-> right - left + 2 * kBorder, height |-> kBorder]
           [] w = "bottom_win_" ->
                [x |-> left - kBorder, y |-> bottom,
                 width |-> right - left + 2 * kBorder, height |-> kBorder]]

\* MoveWindowsOffscreen: the geometry each border window gets.
MoveWindowsOffscreen_Keep(geom) == geom
MoveWindowsOffscreen(geom) == [w \in Windows |-> Offscreen]

\* The event loop runs while (!done && !aborted).
LoopNext(d, a) == IF d \/ a THEN "ungrab_keyboard" ELSE "loop"

loopFrame == << mainVars, captureVars, exit_status, border_created, mapped,
                pointer_grab_result,
                keyboard_grab_result, pointerGrabbed, keyboardGrabbed,
                num_failed_grabs, selectResult, calls >>

\* case ButtonPress
ButtonPress ==
  /\ pc = "loop"
  /\ \E x \in Coord, y \in Coord :
       /\ start_x' = x /\ start_y' = y
       /\ press_pos' = Point(x, y)
  /\ dragging' = TRUE
  /\ event' = Event("ButtonPress", "None")
  /\ paint_request' = << >>
  /\ pc' = LoopNext(done, aborted)
  /\ UNCHANGED << loopFrame, border_geom, done, aborted, end_x, end_y,
                  release_pos >>

\* case ButtonRelease
ButtonRelease ==
  /\ pc = "loop"
  /\ event' = Event("ButtonRelease", "None")
  /\ paint_request' = << >>
  /\ IF dragging
     THEN /\ \E x \in Coord, y \in Coord :
               /\ end_x' = x /\ end_y' = y
               /\ release_pos' = Point(x, y)
          /\ done' = TRUE
     ELSE UNCHANGED << end_x, end_y, release_pos, done >>
  /\ pc' = LoopNext(done', aborted)
  /\ UNCHANGED << loopFrame, border_geom, dragging, aborted, start_x,
                  start_y, press_pos >>

\* One XFillRectangle call.
Fill(gc, x, y, width, height) ==
  [gc |-> gc, x |-> x, y |-> y, width |-> width, height |-> height]

\* PaintWindow: the XFillRectangle calls that repaint border window w for
\* the points (sx, sy) and (dx, dy).
PaintWindow_StartOnly(w, sx, sy, dx, dy) ==
  LET width == sx
      height == sy
  IN  CASE w = "left_win_" ->
             << Fill("black_gc_", 0, 0, kBorder - kInteriorBorder, height),
                Fill("white_gc_", kBorder - kInteriorBorder, 0,
                     kInteriorBorder, height) >>
        [] OTHER ->
             << Fill("black_gc_", 0, 0, width + 2 * kBorder,
                     kBorder - kInteriorBorder) >>
PaintWindow(w, sx, sy, dx, dy) ==
  LET width == max(sx, dx) - min(sx, dx)
      height == max(sy, dy) - min(sy, dy)
  IN  CASE w = "left_win_" ->
             << Fill("black_gc_", 0, 0, kBorder - kInteriorBorder, height),
                Fill("white_gc_", kBorder - kInteriorBorder, 0,
                     kInteriorBorder, height) >>
        [] w = "right_win_" ->
             << Fill("black_gc_", kInteriorBorder, 0,
                     kBorder - kInteriorBorder, height),
                Fill("white_gc_", 0, 0, kInteriorBorder, height) >>
        [] w = "top_win_" ->
             << Fill("black_gc_", 0, 0, width + 2 * kBorder,
                     kBorder - kInteriorBorder),
                Fill("black_gc_", 0, kBorder - kInteriorBorder,
                     kBorder - kInteriorBorder, kInteriorBorder),
                Fill("black_gc_", kBorder + width + kInteriorBorder,
                     kBorder - kInteriorBorder,
                     kBorder - kInteriorBorder, kInteriorBorder),
                Fill("white_gc_", kBorder - kInteriorBorder,
                     kBorder - kInteriorBorder,
                     width + 2 * kInteriorBorder, kInteriorBorder) >>
        [] w = "bottom_win_" ->
             << Fill("black_gc_", 0, kInteriorBorder,
                     width + 2 * kBorder, kBorder - kInteriorBorder),
                Fill("black_gc_", 0, 0,
                     kBorder - kInteriorBorder, kInteriorBorder),
                Fill("black_gc_", kBorder + width + kInteriorBorder, 0,
                     kBorder - kInteriorBorder, kInteriorBorder),
                Fill("white_gc_", kBorder - kInteriorBorder, 0,
                     width + 2 * kInteriorBorder, kInteriorBorder) >>

\* case Expose: PaintWindow draws into the exposed window and changes none
\* of the selector's variables.
Expose ==
  /\ pc = "loop"
  /\ \E w \in Windows :
       /\ event' = Event("Expose", w)
       /\ paint_request' = PaintWindow(w, start_x, start_y, end_x, end_y)
  /\ pc' = LoopNext(done, aborted)
  /\ UNCHANGED << loopFrame, border_geom, done, dragging, aborted,
                  start_x, start_y, end_x, end_y, press_pos, release_pos >>

\* case KeyPress
KeyPress_EscapeAlwaysAborts ==
  /\ pc = "loop"
  /\ \E keycode \in {"Escape", "Other"} :
       /\ event' = Event("KeyPress", keycode)
       /\ paint_request' = << >>
       /\ IF keycode = "Escape"
          THEN aborted' = TRUE /\ UNCHANGED << dragging, border_geom >>
          ELSE UNCHANGED << dragging, border_geom, aborted >>
  /\ pc' = LoopNext(done, aborted')
  /\ UNCHANGED << loopFrame, done, start_x, start_y, end_x, end_y,
                  press_pos, release_pos >>
KeyPress ==
  /\ pc = "loop"
  /\ \E keycode \in {"Escape", "Other"} :
       /\ event' = Event("KeyPress", keycode)
       /\ paint_request' = << >>
       /\ IF keycode = "Escape"
          THEN IF dragging
               THEN /\ dragging' = FALSE
                    /\ border_geom' = MoveWindowsOffscreen(border_geom)
                    /\ UNCHANGED aborted
               ELSE /\ aborted' = TRUE
                    /\ UNCHANGED << dragging, border_geom >>
          ELSE UNCHANGED << dragging, border_geom, aborted >>
  /\ pc' = LoopNext(done, aborted')
  /\ UNCHANGED << loopFrame, done, start_x, start_y, end_x, end_y,
                  press_pos, release_pos >>

\* case MotionNotify
MotionNotify_Unguarded ==
  /\ pc = "loop"
  /\ event' = Event("MotionNotify", "None")
  /\ paint_request' = << >>
  /\ \E x \in Coord, y \in Coord :
       /\ end_x' = x /\ end_y' = y
       /\ border_geom' = ConfigureWindows(start_x, start_y, x, y)
  /\ pc' = LoopNext(done, aborted)
  /\ UNCHANGED << loopFrame, done, dragging, aborted, start_x, start_y,
                  press_pos, release_pos >>
MotionNotify ==
  /\ pc = "loop"
  /\ event' = Event("MotionNotify", "None")
  /\ paint_request' = << >>
  /\ IF dragging
     THEN \E x \in Coord, y \in Coord :
            /\ end_x' = x /\ end_y' = y
            /\ border_geom' = ConfigureWindows(start_x, start_y, x, y)
     ELSE UNCHANGED << end_x, end_y, border_geom >>
  /\ pc' = LoopNext(done, aborted)
  /\ UNCHANGED << loopFrame, done, dragging, aborted, start_x, start_y,
                  press_pos, release_pos >>

\* Any event type the switch has no case for (e.g. KeyRelease).
OtherEvent ==
  /\ pc = "loop"
  /\ event' = Event("Other", "None")
  /\ paint_request' = << >>
  /\ pc' = LoopNext(done, aborted)
  /\ UNCHANGED << loopFrame, border_geom, done, dragging, aborted,
                  start_x, start_y, end_x, end_y, press_pos, release_pos >>

(* ----------------------- SelectRegion: after the loop ------------------ *)
teardownFrame == << mainVars, captureVars, exit_status, border_created,
                    border_geom, pointer_grab_result,
                    keyboard_grab_result, num_failed_grabs,
                    done, dragging, aborted, start_x, start_y, end_x, end_y,
                    event, paint_request,
                    selectResult, press_pos, release_pos >>

\* XUngrabKeyboard(display_, CurrentTime)
UngrabKeyboard_Skipped ==
  /\ pc = "ungrab_keyboard"
  /\ pc' = "ungrab_pointer"
  /\ UNCHANGED << teardownFrame, mapped, pointerGrabbed, keyboardGrabbed,
                  calls >>
UngrabKeyboard ==
  /\ pc = "ungrab_keyboard"
  /\ keyboardGrabbed' = FALSE
  /\ calls' = [calls EXCEPT !.XUngrabKeyboard = @ + 1]
  /\ pc' = "ungrab_pointer"
  /\ UNCHANGED << teardownFrame, mapped, pointerGrabbed >>

\* XUngrabPointer(display_, CurrentTime)
UngrabPointer_Skipped ==
  /\ pc = "ungrab_pointer"
  /\ pc' = "unmap_windows"
  /\ UNCHANGED << teardownFrame, mapped, pointerGrabbed, keyboardGrabbed,
                  calls >>
UngrabPointer ==
  /\ pc = "ungrab_pointer"
  /\ pointerGrabbed' = FALSE
  /\ calls' = [calls EXCEPT !.XUngrabPointer = @ + 1]
  /\ pc' = "unmap_windows"
  /\ UNCHANGED << teardownFrame, mapped, keyboardGrabbed >>

\* The four XUnmapWindow calls.
UnmapWindows_Skipped ==
  /\ pc = "unmap_windows"
  /\ pc' = "select_return"
  /\ UNCHANGED << teardownFrame, mapped, pointerGrabbed, keyboardGrabbed,
                  calls >>
UnmapWindows ==
  /\ pc = "unmap_windows"
  /\ mapped' = {}
  /\ pc' = "select_return"
  /\ UNCHANGED << teardownFrame, pointerGrabbed, keyboardGrabbed, calls >>

\* The rectangle SelectRegion stores through x, y, width and height.  The
\* differences are never negative, so the casts to unsigned int keep them.
NormalizeRect_StartCorner(sx, sy, ex, ey) ==
  [x |-> sx, y |-> sy,
   width |-> max(sx, ex) - sx, height |-> max(sy, ey) - sy]
NormalizeRect(sx, sy, ex, ey) ==
  LET x == min(sx, ex)
      y == min(sy, ey)
  IN  [x |-> x, y |-> y,
       width |-> max(sx, ex) - x, height |-> max(sy, ey) - y]

\* return (width > 0 && height > 0): width and height are the pointer
\* parameters, so the test is whether the two pointers are non-null.
SelectRegionResult(width, height) == width # NULL /\ height # NULL

\* main: if (!selector.SelectRegion(...)) return 1;
ContinuesAfterSelect_Always(ok) == TRUE
ContinuesAfterSelect(ok) == ok

\* SelectRegion: if (aborted) return false; the four stores and the
\* return; then main: if (!selector.SelectRegion(...)) return 1.
SelectReturn_WritesOnAbort ==
  /\ pc = "select_return"
  /\ LET r == NormalizeRect(start_x, start_y, end_x, end_y)
     IN  /\ shot_x' = r.x /\ shot_y' = r.y
         /\ shot_width' = r.width /\ shot_height' = r.height
         /\ selectResult' = "false"
         /\ Return1
  /\ SelectorGone
  /\ UNCHANGED << argc, FLAGS_region, FLAGS_window, display, win, geometry,
                  x_ret, y_ret, captureVars, mapped, pointer_grab_result,
                  keyboard_grab_result,
                  pointerGrabbed, keyboardGrabbed, num_failed_grabs, calls,
                  press_pos, release_pos >>
SelectReturn ==
  /\ pc = "select_return"
  /\ LET r == NormalizeRect(start_x, start_y, end_x, end_y)
         ok == IF aborted THEN FALSE
               ELSE SelectRegionResult("&shot_width", "&shot_height")
     IN  /\ IF aborted
            THEN UNCHANGED << shot_x, shot_y, shot_width, shot_height >>
            ELSE /\ shot_x' = r.x /\ shot_y' = r.y
                 /\ shot_width' = r.width /\ shot_height' = r.height
         /\ selectResult' = IF ok THEN "true" ELSE "false"
         /\ IF ContinuesAfterSelect(ok)
            THEN pc' = "get_image" /\ UNCHANGED exit_status
            ELSE Return1
  /\ SelectorGone
  /\ UNCHANGED << argc, FLAGS_region, FLAGS_window, display, win, geometry,
                  x_ret, y_ret, captureVars, mapped, pointer_grab_result,
                  keyboard_grab_result,
                  pointerGrabbed, keyboardGrabbed, num_failed_grabs, calls,
                  press_pos, release_pos >>

(* -------------------- capture, feedback and encoding ------------------- *)
ShotRect == [x |-> shot_x, y |-> shot_y,
             width |-> shot_width, height |-> shot_height]

\* main: XGetImage, CHECK(image) and the depth CHECK.
SupportedDepth_Any(depth) == TRUE
SupportedDepth(depth) == depth = 24 \/ depth = 32

GetImage ==
  /\ pc = "get_image"
  /\ \/ /\ image' = [status |-> "NULL", depth |-> 0, rect |-> ShotRect]
        /\ Abort
     \/ \E depth \in Depths :
          /\ image' = [status |-> "ok", depth |-> depth, rect |-> ShotRect]
          /\ IF SupportedDepth(depth)
             THEN pc' = "show_feedback" /\ UNCHANGED exit_status
             ELSE Abort
  /\ UNCHANGED << mainVars, selectorVars, feedback, encoder >>

\* main: CreateVisualFeedbackWindow, XMapWindow, XFlush.  XCreateWindow
\* with a zero width or height is a BadValue error: no window is created,
\* and Xlib's default error handler, which the program leaves installed,
\* ends the process with status 1 when the reply of XInternAtom is read.
ShowFeedback ==
  /\ pc = "show_feedback"
  /\ IF shot_width = 0 \/ shot_height = 0
     THEN Return1 /\ UNCHANGED feedback
     ELSE /\ feedback' = [state |-> "mapped", rect |-> ShotRect]
          /\ pc' = "destroy_feedback"
          /\ UNCHANGED exit_status
  /\ UNCHANGED << mainVars, selectorVars, image, encoder >>

\* main: usleep, XDestroyWindow, XFlush.
DestroyFeedback_Skipped ==
  /\ pc = "destroy_feedback"
  /\ pc' = "encode"
  /\ UNCHANGED << mainVars, selectorVars, exit_status, image, encoder,
                  feedback >>
DestroyFeedback ==
  /\ pc = "destroy_feedback"
  /\ feedback' = [feedback EXCEPT !.state = "destroyed"]
  /\ pc' = "encode"
  /\ UNCHANGED << mainVars, selectorVars, exit_status, image, encoder >>

\* image->depth == 24 ? CAIRO_FORMAT_RGB24 : CAIRO_FORMAT_ARGB32
CairoFormat_Swapped(depth) ==
  IF depth = 24 THEN "CAIRO_FORMAT_ARGB32" ELSE "CAIRO_FORMAT_RGB24"
CairoFormat(depth) ==
  IF depth = 24 THEN "CAIRO_FORMAT_RGB24" ELSE "CAIRO_FORMAT_ARGB32"

\* main: cairo_image_surface_create_for_data, cairo_surface_write_to_png,
\* their CHECKs, and return 0.
Encode ==
  /\ pc = "encode"
  /\ \/ /\ encoder' = [surface |-> "NULL",
                       format |-> CairoFormat(image.depth),
                       written |-> "none"]
        /\ Abort
     \/ \E status \in {"CAIRO_STATUS_SUCCESS", "CAIRO_STATUS_WRITE_ERROR"} :
          /\ encoder' = [surface |-> "ok",
                         format |-> CairoFormat(image.depth),
                         written |-> status]
          /\ IF status = "CAIRO_STATUS_SUCCESS"
             THEN pc' = "exit" /\ exit_status' = "0"
             ELSE Abort
  /\ UNCHANGED << mainVars, selectorVars, image, feedback >>

(* --------------------------- specification ----------------------------- *)
Next ==
  \/ CheckArgs
  \/ OpenDisplay
  \/ ResolveWindow
  \/ GetGeometry
  \/ Construct
  \/ GrabPointerStep
  \/ GrabKeyboardStep
  \/ MapWindows
  \/ ButtonPress
  \/ ButtonRelease
  \/ Expose
  \/ KeyPress
  \/ MotionNotify
  \/ OtherEvent
  \/ UngrabKeyboard
  \/ UngrabPointer
  \/ UnmapWindows
  \/ SelectReturn
  \/ GetImage
  \/ ShowFeedback
  \/ DestroyFeedback
  \/ Encode

Spec == Init /\ [][Next]_vars

(* ------------------------------ properties ----------------------------- *)
EscapeKey == Event("KeyPress", "Escape")
AllOffscreen(geom) == \A w \in Windows : geom[w] = Offscreen
Returned == selectResult # "none"

\* C1: once SelectRegion has returned from a completed drag, the rectangle
\* it stored is x = min(p1.x, p2.x), y = min(p1.y, p2.y),
\* width = |p1.x - p2.x|, height = |p1.y - p2.y|, where p1 is the position
\* of the button-down before the button-up and p2 that of the button-up.
C1_DoneRectNormalized ==
  (Returned /\ release_pos.set) =>
     /\ shot_x = (IF press_pos.x <= release_pos.x
                  THEN press_pos.x ELSE release_pos.x)
     /\ shot_y = (IF press_pos.y <= release_pos.y
                  THEN press_pos.y ELSE release_pos.y)
     /\ shot_width = Abs(press_pos.x - release_pos.x)
     /\ shot_height = Abs(press_pos.y - release_pos.y)

\* A drag from (50,50) to (10,10) has returned {10,10,40,40}.
C1_Witness ==
  /\ Returned
  /\ press_pos = Point(50, 50)
  /\ release_pos = Point(10, 10)
  /\ ShotRect = [x |-> 10, y |-> 10, width |-> 40, height |-> 40]

\* C2: a completed drag of zero width or zero height makes SelectRegion
\* return false, so nothing is read, flashed or encoded for it.
C2_ZeroAreaFails ==
  (Returned /\ release_pos.set /\ (shot_width = 0 \/ shot_height = 0)) =>
     /\ selectResult = "false"
     /\ pc = "exit"
     /\ image.status = "none"
     /\ feedback.state = "none"
     /\ encoder.surface = "none"

\* C3: Escape while dragging leaves the loop running, not dragging, with
\* the four border windows offscreen; Escape while not dragging sets
\* aborted, ends the loop, and SelectRegion then returns false.
C3_CancelKey ==
  [][ /\ (pc = "loop" /\ event' = EscapeKey /\ dragging) =>
           /\ pc' = "loop"
           /\ ~dragging' /\ ~done' /\ ~aborted'
           /\ AllOffscreen(border_geom')
           /\ selectResult' = "none"
      /\ (pc = "loop" /\ event' = EscapeKey /\ ~dragging) =>
           /\ aborted' /\ ~done'
           /\ pc' = "ungrab_keyboard"
      /\ (aborted /\ pc # "select_return") => (aborted' /\ pc' # "loop")
      /\ (aborted /\ pc = "select_return") =>
           (selectResult' = "false" /\ pc' = "exit" /\ exit_status' = "1")
    ]_vars

\* A drag was started, cancelled, and the selection then aborted.
C3_Witness ==
  /\ press_pos.set
  /\ ~release_pos.set
  /\ selectResult = "false"
  /\ keyboard_grab_result = "GrabSuccess"

\* C4: whenever SelectRegion has returned, neither grab is held.
C4_NoGrabHeldAtReturn ==
  Returned => (~pointerGrabbed /\ ~keyboardGrabbed)

\* SelectRegion has returned after the keyboard grab retries ran out.
C4_Witness ==
  /\ Returned
  /\ pointer_grab_result = "GrabSuccess"
  /\ num_failed_grabs = kMaxKeyboardGrabAttempts
  /\ ~pointerGrabbed

\* C5 as stated: on every return of SelectRegion the release of the grabbed
\* input has been performed exactly once.
C5_ReleaseOncePerCall ==
  Returned => calls.XUngrabPointer = 1

\* C5 as amended: on every return of SelectRegion each grab that was
\* acquired has been released by exactly one ungrab call, and a grab that
\* was not acquired by none.
C5_ReleaseOncePerAcquiredGrab ==
  Returned =>
     /\ calls.XUngrabPointer =
          (IF pointer_grab_result = "GrabSuccess" THEN 1 ELSE 0)
     /\ calls.XUngrabKeyboard =
          (IF keyboard_grab_result = "GrabSuccess" THEN 1 ELSE 0)

\* SelectRegion has returned from a completed drag with one ungrab each.
C5_Witness ==
  /\ selectResult = "true"
  /\ release_pos.set
  /\ calls.XUngrabPointer = 1
  /\ calls.XUngrabKeyboard = 1

\* C6: a keyboard grab is attempted only while fewer than
\* kMaxKeyboardGrabAttempts attempts have failed; a successful attempt goes
\* on to the event loop, not dragging, with both grabs held; a failed one
\* is retried unless it is the kMaxKeyboardGrabAttempts-th failure, which
\* releases the pointer and returns false without entering the loop.
C6_KeyboardGrabRetry ==
  [][ /\ (pc = "grab_keyboard") =>
           /\ num_failed_grabs < kMaxKeyboardGrabAttempts
           /\ pointerGrabbed
      /\ (pc = "grab_keyboard" /\ keyboard_grab_result' = "GrabSuccess") =>
           /\ pc' = "map_windows"
           /\ pointerGrabbed' /\ keyboardGrabbed'
           /\ selectResult' = "none"
      /\ (pc = "map_windows") =>
           /\ pc' = "loop"
           /\ pointerGrabbed' /\ keyboardGrabbed'
           /\ ~dragging' /\ ~done' /\ ~aborted'
      /\ (/\ pc = "grab_keyboard"
          /\ keyboard_grab_result' # "GrabSuccess"
          /\ num_failed_grabs' < kMaxKeyboardGrabAttempts) =>
           (pc' = "grab_keyboard" /\ selectResult' = "none")
      /\ (/\ pc = "grab_keyboard"
          /\ keyboard_grab_result' # "GrabSuccess"
          /\ num_failed_grabs' >= kMaxKeyboardGrabAttempts) =>
           /\ num_failed_grabs' = kMaxKeyboardGrabAttempts
           /\ pc' = "exit"
           /\ selectResult' = "false"
           /\ ~pointerGrabbed' /\ ~keyboardGrabbed'
           /\ mapped' = {}
    ]_vars

\* Nine attempts failed and the tenth succeeded.
C6_Witness ==
  /\ pc = "map_windows"
  /\ num_failed_grabs = kMaxKeyboardGrabAttempts - 1
  /\ pointerGrabbed /\ keyboardGrabbed

\* C7: when the pointer grab fails, SelectRegion has returned false at
\* once: one XGrabPointer call, no XGrabKeyboard call, no border window
\* mapped, no event read.
C7_PointerGrabFailure ==
  (pointer_grab_result \notin {"none", "GrabSuccess"}) =>
     /\ pc = "exit"
     /\ selectResult = "false"
     /\ exit_status = "1"
     /\ calls.XGrabPointer = 1
     /\ keyboard_grab_result = "none"
     /\ mapped = {}
     /\ event = NoEvent
     /\ ~press_pos.set /\ ~release_pos.set
     /\ ~dragging /\ ~done /\ ~aborted

\* The pointer grab has failed.
C7_Witness ==
  /\ pointer_grab_result = "AlreadyGrabbed"
  /\ calls.XGrabPointer = 1
  /\ Returned

\* C8: the encoder is given CAIRO_FORMAT_RGB24 for depth 24 and
\* CAIRO_FORMAT_ARGB32 for depth 32 and is never called for another depth;
\* an image of another depth aborts the run with no feedback window and no
\* encoder call.
C8_DepthSelectsFormat ==
  /\ (encoder.surface # "none") =>
        /\ image.status = "ok"
        /\ \/ image.depth = 24 /\ encoder.format = "CAIRO_FORMAT_RGB24"
           \/ image.depth = 32 /\ encoder.format = "CAIRO_FORMAT_ARGB32"
  /\ (image.status = "ok" /\ image.depth \notin {24, 32}) =>
        /\ pc = "exit"
        /\ exit_status = "abort"
        /\ feedback.state = "none"
        /\ encoder.surface = "none"

\* A depth-32 image has been written with the alpha format.
C8_Witness ==
  /\ image.depth = 32
  /\ encoder.format = "CAIRO_FORMAT_ARGB32"
  /\ encoder.written = "CAIRO_STATUS_SUCCESS"

\* C9: the feedback window exists only after a successful pixel read, does
\* not exist while the read is pending, and is destroyed before any
\* encoder call.
C9_FeedbackBetweenReadAndEncode ==
  /\ (feedback.state # "none") => image.status = "ok"
  /\ (pc \in {"main", "open_display", "resolve_window", "get_geometry",
              "get_image"}) => feedback.state = "none"
  /\ (pc = "encode" \/ encoder.surface # "none") =>
        feedback.state = "destroyed"

\* The encoder has been called after the feedback window was destroyed.
C9_Witness ==
  /\ encoder.surface = "ok"
  /\ feedback.state = "destroyed"
  /\ image.status = "ok"

\* C10 as stated: for a window target the rectangle used for the pixel
\* read and for the feedback window is the window's geometry, position
\* included.
C10_WindowRectIsGeometry ==
  (win = "window" /\ image.status = "ok") =>
     /\ image.rect = geometry
     /\ (feedback.state # "none" => feedback.rect = geometry)

\* C10 as amended: for a window target the rectangle used for the pixel
\* read and for the feedback window has the window's width and height and
\* the position (0, 0); the window's position is stored in x_ret / y_ret.
C10_WindowRectAtOrigin ==
  (win = "window" /\ image.status = "ok") =>
     LET r == [x |-> 0, y |-> 0,
               width |-> geometry.width, height |-> geometry.height]
     IN  /\ image.rect = r
         /\ (feedback.state # "none" => feedback.rect = r)
         /\ x_ret = geometry.x /\ y_ret = geometry.y

\* The window at {100,50,400,300} was read and flashed as {0,0,400,300}.
C10_Witness ==
  /\ win = "window"
  /\ geometry = [x |-> 100, y |-> 50, width |-> 400, height |-> 300]
  /\ image.rect = [x |-> 0, y |-> 0, width |-> 400, height |-> 300]
  /\ feedback.state = "mapped"
  /\ feedback.rect = [x |-> 0, y |-> 0, width |-> 400, height |-> 300]

\* The -window value is supplied and does not start with a hexadecimal
\* digit, so no number can be read from it.
UnparsableWindowFlag ==
  FLAGS_window # << >> /\ ~IsHexDigit(Head(FLAGS_window))

\* C11 as stated: with a -window value that does not parse as hexadecimal
\* the run never opens the display, queries no geometry, grabs, reads,
\* flashes or encodes nothing, and does not end with status 0.
C11_BadWindowFailsBeforeDisplay ==
  UnparsableWindowFlag =>
     /\ ~display
     /\ pc \in {"main", "open_display", "exit"}
     /\ exit_status # "0"
     /\ geometry = ZeroRect
     /\ pointer_grab_result = "none"
     /\ image = NoImage /\ feedback = NoFeedback /\ encoder = NoEncoder

\* C11 as amended: with -region unset and a -window value that does not
\* parse as hexadecimal, the run gets no further than the parse: it may
\* open the display first, but it queries no geometry, grabs, reads,
\* flashes or encodes nothing, never ends with status 0, and once the
\* display is open it ends by the failed CHECK of the parse.
C11_BadWindowAbortsAtParse ==
  (UnparsableWindowFlag /\ ~FLAGS_region) =>
     /\ pc \in {"main", "open_display", "resolve_window", "exit"}
     /\ exit_status # "0"
     /\ win = "None"
     /\ geometry = ZeroRect
     /\ pointer_grab_result = "none"
     /\ image = NoImage /\ feedback = NoFeedback /\ encoder = NoEncoder
     /\ (pc = "exit" /\ display) => exit_status = "abort"

\* The display was opened and the parse of "n" then aborted the run.
C11_Witness ==
  /\ FLAGS_window = << "n" >>
  /\ ~FLAGS_region
  /\ display
  /\ pc = "exit"
  /\ exit_status = "abort"
  /\ win = "None"

\* C12: the encoder is called only after every earlier step succeeded;
\* when SelectRegion has returned false (as after Escape before any button
\* press) the run has ended with status 1 and nothing was read, flashed or
\* encoded; the exit status is 0 only after an image was read and written.
C12_EncodeOnlyAfterSuccess ==
  /\ (encoder.surface # "none") =>
        /\ argc = 2 /\ display
        /\ win # "None" /\ geometry # ZeroRect
        /\ (FLAGS_region => selectResult = "true")
        /\ shot_width > 0 /\ shot_height > 0
        /\ image.status = "ok" /\ image.depth \in {24, 32}
        /\ feedback.state = "destroyed"
  /\ (selectResult = "false") =>
        /\ pc = "exit" /\ exit_status = "1"
        /\ image = NoImage /\ feedback = NoFeedback /\ encoder = NoEncoder
  /\ (exit_status = "0") =>
        /\ image.status = "ok"
        /\ encoder.surface = "ok"
        /\ encoder.written = "CAIRO_STATUS_SUCCESS"

\* The selection was aborted by Escape before any button press.
C12_Witness ==
  /\ FLAGS_region
  /\ keyboard_grab_result = "GrabSuccess"
  /\ ~press_pos.set
  /\ selectResult = "false"
  /\ calls.XUngrabKeyboard = 1
  /\ exit_status = "1"

\* C13: the capture window is the root exactly when -region is set or
\* -window is empty, and the window named by -window exactly when -region
\* is unset and -window is non-empty; with -region the -window value is
\* not parsed, so it cannot fail the run; the RegionSelector exists and
\* SelectRegion runs only with -region, and with -region nothing is read
\* before SelectRegion has returned true.
C13_OneCaptureMode ==
  /\ (win # "None") =>
        /\ (win = "root") <=> (FLAGS_region \/ FLAGS_window = << >>)
        /\ (win = "window") <=> (~FLAGS_region /\ FLAGS_window # << >>)
  /\ (FLAGS_region /\ win = "None") =>
        \/ pc \in {"main", "open_display", "resolve_window"}
        \/ pc = "exit" /\ ~display
  /\ (\/ border_created
      \/ pointer_grab_result # "none"
      \/ selectResult # "none"
      \/ pc \in {"construct", "grab_pointer", "grab_keyboard",
                 "map_windows", "loop", "ungrab_keyboard",
                 "ungrab_pointer", "unmap_windows", "select_return"})
        => FLAGS_region
  /\ (FLAGS_region /\ (pc = "get_image" \/ image.status # "none")) =>
        selectResult = "true"
  /\ (~FLAGS_region /\ pc = "get_image") => selectResult = "none"

\* With -region and an unparsable -window value the root was captured
\* after a selection.
C13_Witness ==
  /\ FLAGS_region
  /\ FLAGS_window = << "n" >>
  /\ win = "root"
  /\ selectResult = "true"
  /\ image.status = "ok"

\* C14 as stated: after the loop the border windows are unmapped before
\* the grabs are released: as long as a border window is mapped, both
\* grabs are still held.
C14_UnmapBeforeUngrab ==
  (/\ pc \in {"ungrab_keyboard", "ungrab_pointer", "unmap_windows",
              "select_return"}
   /\ mapped # {}) => (pointerGrabbed /\ keyboardGrabbed)

\* C14 as amended: after the loop the keyboard grab is released first,
\* then the pointer grab, then the four border windows are unmapped, then
\* SelectRegion returns: no border window is unmapped while a grab is
\* still held.
C14_UngrabBeforeUnmap ==
  /\ (pc = "ungrab_keyboard") =>
        (keyboardGrabbed /\ pointerGrabbed /\ mapped = Windows)
  /\ (pc = "ungrab_pointer") =>
        (~keyboardGrabbed /\ pointerGrabbed /\ mapped = Windows)
  /\ (pc = "unmap_windows") =>
        (~keyboardGrabbed /\ ~pointerGrabbed /\ mapped = Windows)
  /\ (pc = "select_return") =>
        (~keyboardGrabbed /\ ~pointerGrabbed /\ mapped = {})
  /\ (pc \in {"ungrab_keyboard", "ungrab_pointer", "unmap_windows",
              "select_return"}) => (selectResult = "none" /\ (done \/ aborted))
  /\ Returned => mapped = {}

\* Both grabs are released and the border windows are still mapped.
C14_Witness ==
  /\ pc = "unmap_windows"
  /\ mapped = Windows
  /\ ~keyboardGrabbed /\ ~pointerGrabbed
  /\ calls.XUngrabKeyboard = 1 /\ calls.XUngrabPointer = 1

\* The rectangle of the drag the border windows were last configured for:
\* right after a MotionNotify handled while dragging it is the one spanned
\* by the start and end points.
JustConfigured == pc = "loop" /\ dragging /\ event.type = "MotionNotify"
DragRect ==
  [x |-> IF start_x <= end_x THEN start_x ELSE end_x,
   y |-> IF start_y <= end_y THEN start_y ELSE end_y,
   width |-> Abs(start_x - end_x),
   height |-> Abs(start_y - end_y)]
Overlap(a, b) ==
  /\ a.width > 0 /\ a.height > 0 /\ b.width > 0 /\ b.height > 0
  /\ a.x < b.x + b.width /\ b.x < a.x + a.width
  /\ a.y < b.y + b.height /\ b.y < a.y + a.height
BorderSizes(sideHeight) ==
  /\ border_geom["left_win_"].width = kBorder
  /\ border_geom["right_win_"].width = kBorder
  /\ border_geom["left_win_"].height = sideHeight
  /\ border_geom["right_win_"].height = sideHeight
  /\ border_geom["top_win_"].height = kBorder
  /\ border_geom["bottom_win_"].height = kBorder
  /\ border_geom["top_win_"].width = DragRect.width + 2 * kBorder
  /\ border_geom["bottom_win_"].width = DragRect.width + 2 * kBorder
OverlappingPairs ==
  {p \in Windows \X Windows :
     p[1] # p[2] /\ Overlap(border_geom[p[1]], border_geom[p[2]])}
NoBorderOverlapsDrag ==
  \A w \in Windows : ~Overlap(border_geom[w], DragRect)

\* C15 as stated: for every drag rectangle, zero width or height included,
\* the left and right windows are kBorder wide and exactly as high as the
\* rectangle, the top and bottom windows are kBorder high and 2 * kBorder
\* wider than the rectangle, and the four windows overlap neither each
\* other nor the rectangle.
C15_BordersFrameDrag ==
  JustConfigured =>
     /\ BorderSizes(DragRect.height)
     /\ OverlappingPairs = {}
     /\ NoBorderOverlapsDrag

\* C15 as amended: the left and right windows are kBorder wide and as high
\* as the rectangle, but 1 high when the rectangle's height is 0; the top
\* and bottom windows are kBorder high and 2 * kBorder wider than the
\* rectangle; no window overlaps the rectangle; the windows do not overlap
\* each other unless the height is 0, when exactly the left and the right
\* window each overlap the bottom window.
C15_BordersFrameDragClamped ==
  JustConfigured =>
     /\ BorderSizes(IF DragRect.height = 0 THEN 1 ELSE DragRect.height)
     /\ NoBorderOverlapsDrag
     /\ border_geom["left_win_"].x + kBorder = DragRect.x
     /\ border_geom["right_win_"].x = DragRect.x + DragRect.width
     /\ border_geom["top_win_"].y + kBorder = DragRect.y
     /\ border_geom["bottom_win_"].y = DragRect.y + DragRect.height
     /\ OverlappingPairs =
          IF DragRect.height = 0
          THEN {<< "left_win_", "bottom_win_" >>,
                << "bottom_win_", "left_win_" >>,
                << "right_win_", "bottom_win_" >>,
                << "bottom_win_", "right_win_" >>}
          ELSE {}

\* The border windows were configured for a drag of height 0.
C15_Witness ==
  /\ JustConfigured
  /\ DragRect.height = 0 /\ DragRect.width = 40
  /\ border_geom["left_win_"].height = 1
  /\ Overlap(border_geom["left_win_"], border_geom["bottom_win_"])

\* C16: while the selector stays dragging, the start point recorded by the
\* button-down that began the drag does not change, whatever event is
\* handled.
C16_StartFixedWhileDragging ==
  [][ (pc = "loop" /\ dragging /\ dragging') =>
         (start_x' = start_x /\ start_y' = start_y) ]_vars

\* The fills a repaint of border window w makes for a rectangle of width
\* rw and height rh.
FillsFor(w, rw, rh) ==
  CASE w = "left_win_" ->
         << Fill("black_gc_", 0, 0, 1, rh), Fill("white_gc_", 1, 0, 1, rh) >>
    [] w = "right_win_" ->
         << Fill("black_gc_", 1, 0, 1, rh), Fill("white_gc_", 0, 0, 1, rh) >>
    [] w = "top_win_" ->
         << Fill("black_gc_", 0, 0, rw + 4, 1),
            Fill("black_gc_", 0, 1, 1, 1),
            Fill("black_gc_", rw + 3, 1, 1, 1),
            Fill("white_gc_", 1, 1, rw + 2, 1) >>
    [] w = "bottom_win_" ->
         << Fill("black_gc_", 0, 1, rw + 4, 1),
            Fill("black_gc_", 0, 0, 1, 1),
            Fill("black_gc_", rw + 3, 0, 1, 1),
            Fill("white_gc_", 1, 0, rw + 2, 1) >>
JustExposed == pc = "loop" /\ event.type = "Expose"

\* Width and height of the rectangle the border windows currently frame:
\* none (0, 0) while they are offscreen.
AppliedWidth ==
  IF AllOffscreen(border_geom) THEN 0
  ELSE border_geom["top_win_"].width - 2 * kBorder
AppliedHeight ==
  IF AllOffscreen(border_geom) THEN 0
  ELSE border_geom["bottom_win_"].y - border_geom["left_win_"].y

\* C17 as stated: a repaint uses the width and height of the rectangle
\* most recently applied to the border windows, and none of a drag that
\* was cancelled (the borders are then offscreen and frame nothing).
C17_RepaintUsesAppliedRect ==
  JustExposed =>
     paint_request = FillsFor(event.detail, AppliedWidth, AppliedHeight)

\* C17 as amended: a repaint is computed from scratch from the start and
\* end points as they are when the Expose is handled, and only an Expose
\* paints; Escape while dragging leaves the four points as they are, so a
\* repaint after it still uses them; the rectangle stored on Done is
\* computed from the points of the last button-down and of the button-up,
\* both later than any cancelled drag.
C17_RepaintUsesCurrentPoints ==
  [][ /\ JustExposed' =>
           paint_request' = FillsFor(event'.detail,
                                     Abs(start_x' - end_x'),
                                     Abs(start_y' - end_y'))
      /\ (event'.type # "Expose") => paint_request' = << >>
      /\ (pc = "loop" /\ dragging /\ event' = EscapeKey) =>
           /\ start_x' = start_x /\ start_y' = start_y
           /\ end_x' = end_x /\ end_y' = end_y
      /\ (pc' = "select_return" /\ ~aborted') =>
           /\ press_pos' = Point(start_x', start_y')
           /\ release_pos' = Point(end_x', end_y')
    ]_vars

\* A border window was repainted with the rectangle of a cancelled drag
\* while the borders were offscreen.
C17_Witness ==
  /\ JustExposed
  /\ ~dragging
  /\ AllOffscreen(border_geom)
  /\ event.detail = "top_win_"
  /\ start_x = 10 /\ end_x = 50
  /\ paint_request[1] = Fill("black_gc_", 0, 0, 44, 1)

\* What the selector keeps about a drag: the drag state, the recorded
\* points and the geometry of the border windows.
SelectorState == << done, dragging, aborted, start_x, start_y, end_x, end_y,
                    border_geom >>
NoTransitionInIdle(e) ==
  \/ e.type \in {"MotionNotify", "ButtonRelease"}
  \/ (e.type = "KeyPress" /\ e # EscapeKey)

\* C18: while no drag is in progress, a pointer motion, a button release
\* or a key other than Escape changes neither the drag state, the recorded
\* points nor the border geometry, and the borders stay offscreen; an
\* Expose changes none of them in any state; and the loop is left only by
\* a button release while dragging or by Escape while not dragging.
C18_NoTransitionEvents ==
  [][ /\ (pc = "loop" /\ ~dragging /\ NoTransitionInIdle(event')) =>
           /\ UNCHANGED SelectorState
           /\ AllOffscreen(border_geom')
      /\ (pc = "loop" /\ event'.type = "Expose") => UNCHANGED SelectorState
      /\ (pc = "loop" /\ pc' # "loop") =>
           \/ (dragging /\ event'.type = "ButtonRelease" /\ done')
           \/ (~dragging /\ event' = EscapeKey /\ aborted')
    ]_vars

\* A pointer motion was handled with no drag in progress, after an earlier
\* drag was cancelled: the points of that drag are still recorded and the
\* borders are offscreen.
C18_Witness ==
  /\ pc = "loop"
  /\ ~dragging
  /\ event.type = "MotionNotify"
  /\ start_x = 10 /\ end_x = 50
  /\ AllOffscreen(border_geom)

\* The steps of SelectRegion from the XMapWindow calls to the XUnmapWindow
\* calls: the event loop and the teardown its exit starts.
MappedPhase == {"loop", "ungrab_keyboard", "ungrab_pointer", "unmap_windows"}

\* C19: in region mode, when XGetImage is about to read the pixels no
\* border window is mapped and neither grab is held; and a border window
\* is mapped only after both grabs were acquired and no later than the
\* teardown that follows the exit of the event loop.
C19_BordersGoneAtCapture ==
  /\ (pc = "get_image" /\ FLAGS_region) =>
        /\ mapped = {}
        /\ ~pointerGrabbed /\ ~keyboardGrabbed
  /\ (mapped # {}) =>
        /\ pc \in MappedPhase
        /\ FLAGS_region
        /\ pointer_grab_result = "GrabSuccess"
        /\ keyboard_grab_result = "GrabSuccess"
        /\ ~Returned

\* A region selection ended with a button release and XGetImage is about
\* to be called.
C19_Witness ==
  /\ pc = "get_image"
  /\ FLAGS_region
  /\ selectResult = "true"
  /\ release_pos.set
  /\ calls.XUngrabKeyboard = 1 /\ calls.XUngrabPointer = 1
  /\ mapped = {}

ShotOutputs == << shot_x, shot_y, shot_width, shot_height >>

\* C20: in the event loop, an Escape that follows an Escape, or that comes
\* while no drag is in progress, sets aborted and ends the loop, so two
\* Escapes in a row abort from every state of the loop; once aborted,
\* nothing is stored through x, y, width or height and SelectRegion
\* returns false.
C20_TwoEscapesAbort ==
  [][ /\ (pc = "loop" /\ event = EscapeKey) => ~dragging
      /\ (pc = "loop" /\ event' = EscapeKey /\ (event = EscapeKey \/ ~dragging))
           => (aborted' /\ pc' # "loop")
      /\ (pc = "loop" /\ dragging /\ event' = EscapeKey) =>
           (~dragging' /\ ~aborted' /\ pc' = "loop")
      /\ aborted =>
           /\ UNCHANGED ShotOutputs
           /\ pc \in MappedPhase \cup {"select_return"}
           /\ (pc = "select_return" => selectResult' = "false")
    ]_vars

\* SelectRegion has returned false after a drag was cancelled by one
\* Escape and the selection aborted by the next.
C20_Witness ==
  /\ selectResult = "false"
  /\ press_pos.set
  /\ ~release_pos.set
  /\ calls.XUngrabKeyboard = 1
  /\ ShotOutputs = << 0, 0, RootGeom.width, RootGeom.height >>

====
